---- MODULE Spec2Model ----
(***************************************************************************)
(* Two commands of the CLI. LoginCommand.run (the login variable): ask for  *)
(* the credentials, post them to /auth, write the settings.                *)
(* RunCommand.run: boot the local development server as a child process,   *)
(* wait for its readiness line or a timeout, send one request, consume the *)
(* event stream, rebuild the result or the error, kill the child.          *)
(* Strings the code slices, splits or matches are sequences of one         *)
(* character strings; opaque texts are one-element sequences.              *)
(***************************************************************************)
EXTENDS Integers, Sequences, FiniteSets, TLC

VARIABLES
  params,        \* the CLI input: flags.m, flags.v, args, vflags
  server,        \* what the spawned server will answer: events, statusCode, body
  pc,            \* where run() is: load, validate, race, request, kill, returned, thrown
  error,         \* the error run() rejected with
  method,        \* const method (line 84)
  pathname,      \* let pathname (lines 95-110)
  spawned,       \* number of localServer.run calls
  procAlive,     \* the child is running
  chunks,        \* stdout chunks the child has written
  readyLine,     \* the first readiness line among them: none, listening, unable
  isConnected,   \* line 113
  isTimedOut,    \* line 125
  watchdog,      \* first task of the race: idle, sleeping, killing, returned, thrown
  poller,        \* second task of the race: idle, polling, done
  race,          \* Promise.race: idle, pending, resolved, rejected
  raceError,     \* the rejection reason of the race
  kills,         \* number of killProcess(proc.pid) calls
  killPending,   \* who awaits a killProcess call: "watchdog", "main"
  killRejected,  \* who saw its killProcess call reject
  terminated,    \* a killProcess call resolved
  requests,      \* the io.request calls made, in order
  idx,           \* number of stream events the callback has handled
  result,        \* let result (line 156): <<>> while undefined, else <<json>>
  streamResult,  \* const streamResult (line 157): <<>> until io.request resolves
  log,           \* console.log output, in order
  login          \* LoginCommand.run: its input, where it is, what it wrote

vars == <<params, server, pc, error, method, pathname, spawned, procAlive, chunks,
          readyLine, isConnected, isTimedOut, watchdog, poller, race, raceError, kills,
          killPending, killRejected, terminated, requests, idx, result,
          streamResult, log, login>>

-----------------------------------------------------------------------------
(* Bounds of the model *)

MaxPathLen == 2    \* characters in the path argument
MaxTail == 2       \* characters of a 500 body after the optional prefix
MaxEvents == 2     \* events in a response stream
MaxChunks == 2     \* stdout chunks written by the child

-----------------------------------------------------------------------------
(* Strings *)

RECURSIVE SeqsUpTo(_, _)
SeqsUpTo(S, n) ==
  IF n = 0 THEN {<<>>}
  ELSE LET shorter == SeqsUpTo(S, n - 1)
       IN  shorter \cup {Append(s, c) : s \in {t \in shorter : Len(t) = n - 1}, c \in S}

\* String.prototype.startsWith
StartsWith(s, p) == Len(s) >= Len(p) /\ SubSeq(s, 1, Len(p)) = p

\* String.prototype.slice(n), 0 <= n
Slice(s, n) == IF n >= Len(s) THEN <<>> ELSE SubSeq(s, n + 1, Len(s))

\* String.prototype.split(sep) for a one character separator
RECURSIVE Split(_, _)
Split(s, sep) ==
  IF \A i \in 1..Len(s) : s[i] # sep THEN <<s>>
  ELSE LET i == CHOOSE k \in 1..Len(s) : s[k] = sep /\ \A j \in 1..(k - 1) : s[j] # sep
       IN  <<SubSeq(s, 1, i - 1)>> \o Split(Slice(s, i), sep)

\* String.prototype.toLowerCase on the method flags of the model
ToLowerCase(s) ==
  CASE s = "GET" -> "get"
    [] s = "POST" -> "post"
    [] s = "DEL" -> "del"
    [] s = "Patch" -> "patch"
    [] OTHER -> s

\* String.prototype.toUpperCase on the accepted methods
ToUpperCase(s) ==
  CASE s = "get" -> "GET"
    [] s = "post" -> "POST"
    [] s = "put" -> "PUT"
    [] s = "delete" -> "DELETE"
    [] s = "del" -> "DEL"
    [] OTHER -> s

NL == "\n"

\* 'Application Error:' (line 188), one character per element
ErrorPrefix ==
  <<"A", "p", "p", "l", "i", "c", "a", "t", "i", "o", "n", " ",
    "E", "r", "r", "o", "r", ":">>

\* 'Application Error: ' (line 189): the prefix and a space
ErrorPrefixSpace == Append(ErrorPrefix, " ")

-----------------------------------------------------------------------------
(* Errors *)

Err(name, message) == [name |-> name, message |-> message]
NoError == Err("none", <<>>)

-----------------------------------------------------------------------------
(* The CLI input *)

Param(m, v, args, vflags) == [m |-> m, v |-> v, args |-> args, vflags |-> vflags]

PathChars == {".", "/", "a"}
\* './a/b', '/a/b' and 'a/b'
ExamplePaths ==
  {<<".", "/", "a", "/", "b">>, <<"/", "a", "/", "b">>, <<"a", "/", "b">>}

Paths == SeqsUpTo(PathChars, MaxPathLen) \cup ExamplePaths

MethodFlags ==
  {<<>>, <<"get">>, <<"GET">>, <<"POST">>, <<"put">>, <<"delete">>, <<"del">>,
   <<"DEL">>, <<"patch">>, <<"Patch">>}

\* --x 1 : one named flag with its words
VFlagsX == << <<"x", <<"1">>>> >>
VFlagsXY == << <<"x", <<"1", "2">>>>, <<"y", <<"3">>>> >>

\* --_debug 0 : a named flag with the name of the debug flag
VFlagsDebug == << <<"_debug", <<"0">>>>, <<"x", <<"1">>>> >>

\* The accepted methods against every set of named flags
VFlagParams ==
  {Param(m, FALSE, <<<<"a">>>>, vf) :
     m \in {<<"get">>, <<"POST">>, <<"put">>, <<"delete">>},
     vf \in {<<>>, VFlagsX, VFlagsXY, VFlagsDebug}}

AllParams ==
  {Param(m, FALSE, args, VFlagsX) :
     m \in MethodFlags, args \in {<<>>} \cup {<<p>> : p \in Paths}}

CoreParams ==
  {Param(<<>>, FALSE, <<<<"/", "a">>>>, VFlagsX),
   Param(<<"POST">>, TRUE, <<<<"a">>>>, VFlagsXY),
   Param(<<"delete">>, FALSE, <<<<".", "/">>>>, <<>>),
   Param(<<"patch">>, FALSE, <<<<"a">>>>, VFlagsX),
   Param(<<"del">>, FALSE, <<<<"a">>>>, VFlagsX),
   Param(<<"get">>, FALSE, <<>>, VFlagsX),
   Param(<<"get">>, TRUE, <<<<".", ".">>>>, <<>>)}

-----------------------------------------------------------------------------
(* What the server answers *)

\* The data of an event: a JSON text. ok: JSON.parse accepts it; val: what it
\* parses to, an object {statusCode, body} or a string; raw: the text itself.
JsonObject(statusCode, body) ==
  [ok |-> TRUE, kind |-> "object", statusCode |-> statusCode, body |-> body,
   str |-> <<>>, raw |-> <<"json">>]
JsonString(str) ==
  [ok |-> TRUE, kind |-> "string", statusCode |-> 0, body |-> <<>>,
   str |-> str, raw |-> <<"json">>]
Malformed ==
  [ok |-> FALSE, kind |-> "none", statusCode |-> 0, body |-> <<>>,
   str |-> <<>>, raw |-> <<"{oops">>]

Event(event, data) == [event |-> event, data |-> data]

\* Bodies of an @response payload, each an opaque text
BodyJson == <<"{\"a\":1}">>
BodyZero == <<"0">>
BodyText == <<"hi">>

Events ==
  {Event("@response", JsonObject(200, BodyJson)),
   Event("@response", JsonObject(201, BodyText)),
   Event("@response", JsonObject(200, BodyZero)),
   Event("@response", Malformed),
   Event("@stdout", JsonString(<<"h", NL, "i">>)),
   Event("@stderr", JsonString(<<"e">>)),
   Event("ping", Malformed)}

Script(events, statusCode, body) ==
  [events |-> events, statusCode |-> statusCode, body |-> body]

TailChars == {" ", NL, "b"}
Tails == SeqsUpTo(TailChars, MaxTail)
ErrorBodies == Tails \cup {ErrorPrefix \o t : t \in Tails}

OkStream ==
  <<Event("@stdout", JsonString(<<"h", NL, "i">>)),
    Event("@response", JsonObject(200, BodyJson))>>

CoreScripts ==
  {Script(OkStream, 200, <<>>),
   Script(<<>>, 200, <<>>),
   Script(<<Event("@response", Malformed)>>, 200, <<>>),
   Script(<<>>, 500, ErrorPrefixSpace \o <<"b", NL, "s">>)}

StreamScripts ==
  {Script(es, sc, IF sc = 500 THEN <<"b">> ELSE <<>>) :
     es \in SeqsUpTo(Events, MaxEvents), sc \in {200, 500}}
  \cup {Script(es, 404, <<>>) : es \in SeqsUpTo(Events, 1)}

BodyScripts ==
  {Script(es, 500, b) :
     es \in {<<>>, <<Event("@response", JsonObject(200, BodyJson))>>},
     b \in ErrorBodies}

\* The inputs of the model: every CLI input against the core answers, and the
\* core CLI inputs against every answer.
Inputs ==
  (AllParams \X CoreScripts) \cup
  (VFlagParams \X {Script(OkStream, 200, <<>>)}) \cup
  (CoreParams \X (StreamScripts \cup BodyScripts))

-----------------------------------------------------------------------------
(* The synchronous steps of run *)

\* line 84: ((params.flags['m'] || [])[0] || 'get').toLowerCase()
MethodOf(p) == ToLowerCase(IF p.m = <<>> THEN "get" ELSE p.m[1])

\* line 85 with one more method let through
MethodSupportedLoose(m) == m \in {"get", "post", "put", "delete", "del", "patch"}

\* line 85: the accepted methods
MethodSupported(m) == m \in {"get", "post", "put", "delete", "del"}

\* lines 88-90: method = 'delete' assigns to the const binding of line 84,
\* which throws a TypeError
AssignsToConst(m) == m = "del"

\* lines 91-94: every named flag with its words joined by a space
RECURSIVE Join(_, _)
Join(words, sep) ==
  IF words = <<>> THEN <<>>
  ELSE IF Len(words) = 1 THEN <<words[1]>>
  ELSE <<words[1], sep>> \o Join(Tail(words), sep)

FunctionParams(p) ==
  [i \in 1..Len(p.vflags) |-> <<p.vflags[i][1], Join(p.vflags[i][2], " ")>>]

\* line 95: params.args[0] || ''
ArgPath(p) == IF p.args = <<>> THEN <<>> ELSE p.args[1]

\* line 102
PathInvalid(path) == StartsWith(path, <<".", ".">>)

\* lines 105-110 with the test for the leading dot left out
NormalizePathSlashOnly(path) ==
  IF StartsWith(path, <<"/">>) THEN Slice(path, 1) ELSE path

\* lines 105-110
NormalizePath(path) ==
  LET a == IF StartsWith(path, <<".">>) THEN Slice(path, 1) ELSE path
  IN  IF StartsWith(a, <<"/">>) THEN Slice(a, 1) ELSE a

\* lines 117-121 with a test every chunk passes
IsReadyAny(chunk) == chunk \in {"listening", "unable", "other"}

\* lines 117-118 without the else-if of lines 119-121
IsReadyListeningOnly(chunk) == chunk = "listening"

\* lines 117-121: the chunk holds one of the two readiness lines
IsReady(chunk) == chunk \in {"listening", "unable"}

\* JSON.stringify of an object of strings
RECURSIVE JsonEntries(_)
JsonEntries(obj) ==
  IF obj = <<>> THEN <<>>
  ELSE <<"\"", obj[1][1], "\"", ":", "\"">> \o obj[1][2] \o <<"\"">> \o
       (IF Len(obj) = 1 THEN <<>> ELSE <<",">> \o JsonEntries(Tail(obj)))
JsonStringify(obj) == <<"{">> \o JsonEntries(obj) \o <<"}">>

\* obj[key] = val: an existing key keeps its place and takes the value
Assign(obj, key, val) ==
  IF \E i \in 1..Len(obj) : obj[i][1] = key
  THEN [i \in 1..Len(obj) |-> IF obj[i][1] = key THEN <<key, val>> ELSE obj[i]]
  ELSE Append(obj, <<key, val>>)

\* lines 148-151 with the parameters put in the query for every method
QueryParamsAlways(m, fp) == Assign(fp, "_debug", <<"true">>)

\* lines 148-151
QueryParams(m, fp) ==
  Assign(IF m = "get" \/ m = "delete" THEN fp ELSE <<>>, "_debug", <<"true">>)

\* lines 152-154
BodyParams(m, fp) ==
  IF m = "post" \/ m = "put" THEN JsonStringify(fp) ELSE <<>>

\* lines 157-162: the arguments of io.request
Request(m, path, p) ==
  [method |-> ToUpperCase(m), path |-> path,
   query |-> QueryParams(m, FunctionParams(p)),
   body |-> BodyParams(m, FunctionParams(p))]

\* lines 185-192: the message of the error of a 500 response
ErrorMessage(errorBody) ==
  LET errorMessage ==
        IF StartsWith(errorBody, ErrorPrefix)
        THEN Slice(errorBody, Len(ErrorPrefixSpace))
        ELSE errorBody
  IN  Split(errorMessage, NL)[1]

\* lines 198-203 and 215-219: JSON.parse(body), and what is printed for it
BodyParses(body) == body \in {BodyJson, BodyZero}
BodyTruthy(body) == body = BodyJson
Pretty(body) == IF body = BodyJson THEN <<"{\n  \"a\": 1\n}">> ELSE body
Printed(body) ==
  IF BodyParses(body) /\ BodyTruthy(body) THEN Pretty(body) ELSE body

Line(kind, text) == [kind |-> kind, text |-> text]

\* a status code as console.log shows it
StatusText(statusCode) ==
  CASE statusCode = 200 -> "200"
    [] statusCode = 201 -> "201"
    [] OTHER -> "0"

\* lines 169-171, 174-176: one console.log per line of the decoded string
PrintLines(kind, str, verbose) ==
  LET lines == Split(str, NL)
  IN  [i \in 1..Len(lines) |->
         Line(kind, (IF verbose THEN <<kind, "> ">> ELSE <<>>) \o lines[i])]

\* lines 163-180: what the event callback prints
CallbackPrints(ev, verbose) ==
  IF ev.event = "@response" THEN <<>>
  ELSE IF ev.event = "@stdout" THEN PrintLines("stdout", ev.data.str, verbose)
  ELSE IF ev.event = "@stderr" THEN PrintLines("stderr", ev.data.str, verbose)
  ELSE <<Line("event", <<ev.event, "> ">> \o ev.data.raw)>>

\* lines 164-166 with the result cleared by every other event
CallbackResultReset(ev, old) ==
  IF ev.event = "@response" THEN <<ev.data>> ELSE <<>>

\* lines 164-166 keeping the first @response instead of the latest
CallbackResultFirst(ev, old) ==
  IF ev.event = "@response" /\ old = <<>> THEN <<ev.data>> ELSE old

\* lines 164-166: what the event callback leaves in result
CallbackResult(ev, old) ==
  IF ev.event = "@response" THEN <<ev.data>> ELSE old

\* lines 165, 168, 173: JSON.parse throws on a malformed text
CallbackThrows(ev) ==
  ev.event \in {"@response", "@stdout", "@stderr"} /\ ~ev.data.ok

\* lines 207-219: what run prints after the kill
FinalPrints(p, req, res) ==
  (IF p.v
   THEN <<Line("verbose", <<"location:  ">> \o req.path),
          Line("verbose", <<"method:    ", req.method>>),
          Line("verbose", <<"status:    ", StatusText(res.statusCode)>>),
          Line("verbose", <<"arguments: ">>),
          Line("verbose", JsonStringify(FunctionParams(p))),
          Line("verbose", <<"result:">>)>>
   ELSE <<>>) \o <<Line("result", Printed(res.body))>>

-----------------------------------------------------------------------------
(* The state after construction: run(params) has been called *)

RunInit(inputs, at) ==
  /\ \E input \in inputs : params = input[1] /\ server = input[2]
  /\ pc = at
  /\ error = NoError
  /\ method = "none"
  /\ pathname = <<>>
  /\ spawned = 0
  /\ procAlive = FALSE
  /\ chunks = 0
  /\ readyLine = "none"
  /\ isConnected = FALSE
  /\ isTimedOut = FALSE
  /\ watchdog = "idle"
  /\ poller = "idle"
  /\ race = "idle"
  /\ raceError = NoError
  /\ kills = 0
  /\ killPending = {}
  /\ killRejected = {}
  /\ terminated = FALSE
  /\ requests = <<>>
  /\ idx = 0
  /\ result = <<>>
  /\ streamResult = <<>>
  /\ log = <<>>

\* LoginCommand.run has not been called
LoginIdle ==
  [pc |-> "idle", BASE_URL |-> <<>>, h |-> <<>>, email |-> <<>>,
   password |-> <<>>,
   response |-> [statusCode |-> 0, error |-> <<>>, user |-> <<>>],
   host |-> <<>>, inquireList |-> <<>>, sendParams |-> <<>>,
   error |-> NoError, posts |-> 0, writes |-> <<>>, log |-> <<>>]

InitWith(inputs) == RunInit(inputs, "load") /\ login = LoginIdle

Init == InitWith(Inputs)

\* run() rejects with e: nothing after the throw runs
Throw(e) == pc' = "thrown" /\ error' = e

\* The race has settled and the continuation of run is queued as a microtask:
\* it runs before any timer, I/O or child event.
MicrotaskPending == pc = "race" /\ race \in {"resolved", "rejected"}

\* what RunCommand.run never writes: its input, and the other command
inputVars == <<params, server, login>>
gateVars == <<isConnected, isTimedOut, watchdog, poller, race, raceError>>
procVars == <<spawned, procAlive, chunks, readyLine>>
killVars == <<kills, killPending, killRejected, terminated>>
reqVars == <<requests, idx, result, streamResult, log>>

-----------------------------------------------------------------------------
(* line 78: await loadPackage(params, true) *)

LoadPackageResolves ==
  /\ pc = "load"
  /\ pc' = "validate"
  /\ UNCHANGED <<inputVars, error, method, pathname, gateVars, procVars, killVars, reqVars>>

LoadPackageRejects ==
  /\ pc = "load"
  /\ Throw(Err("LoadPackageError", <<>>))
  /\ UNCHANGED <<inputVars, method, pathname, gateVars, procVars, killVars, reqVars>>

(* lines 84-87 *)
ThrowMethodNotSupported ==
  /\ pc = "validate"
  /\ ~MethodSupported(MethodOf(params))
  /\ method' = MethodOf(params)
  /\ Throw(Err("MethodNotSupported", <<>>))
  /\ UNCHANGED <<inputVars, pathname, gateVars, procVars, killVars, reqVars>>

(* lines 88-90 *)
ThrowAssignToConst ==
  /\ pc = "validate"
  /\ MethodSupported(MethodOf(params))
  /\ AssignsToConst(MethodOf(params))
  /\ method' = MethodOf(params)
  /\ Throw(Err("AssignmentToConstant", <<>>))
  /\ UNCHANGED <<inputVars, pathname, gateVars, procVars, killVars, reqVars>>

(* lines 95-101 *)
ThrowNoPathname ==
  /\ pc = "validate"
  /\ MethodSupported(MethodOf(params))
  /\ ~AssignsToConst(MethodOf(params))
  /\ ArgPath(params) = <<>>
  /\ method' = MethodOf(params)
  /\ Throw(Err("PathnameMissing", <<>>))
  /\ UNCHANGED <<inputVars, pathname, gateVars, procVars, killVars, reqVars>>

(* lines 102-104 *)
ThrowInvalidPathname ==
  /\ pc = "validate"
  /\ MethodSupported(MethodOf(params))
  /\ ~AssignsToConst(MethodOf(params))
  /\ ArgPath(params) # <<>>
  /\ PathInvalid(ArgPath(params))
  /\ method' = MethodOf(params)
  /\ pathname' = ArgPath(params)
  /\ Throw(Err("InvalidPathname", <<>>))
  /\ UNCHANGED <<inputVars, gateVars, procVars, killVars, reqVars>>

(* lines 105-146: the path is normalized, the server is spawned, the stdout
   listener is attached and both tasks of the race run to their first sleep *)
SpawnServer ==
  /\ pc = "validate"
  /\ MethodSupported(MethodOf(params))
  /\ ~AssignsToConst(MethodOf(params))
  /\ ArgPath(params) # <<>>
  /\ ~PathInvalid(ArgPath(params))
  /\ method' = MethodOf(params)
  /\ pathname' = NormalizePath(ArgPath(params))
  /\ spawned' = spawned + 1
  /\ procAlive' = TRUE
  /\ isConnected' = FALSE
  /\ isTimedOut' = FALSE
  /\ watchdog' = "sleeping"
  /\ poller' = "polling"
  /\ race' = "pending"
  /\ pc' = "race"
  /\ UNCHANGED <<inputVars, error, chunks, readyLine, raceError, killVars, reqVars>>

(* lines 114-122: the child writes a chunk to stdout *)
StdoutData ==
  /\ procAlive
  /\ ~MicrotaskPending
  /\ chunks < MaxChunks
  /\ \E chunk \in {"listening", "unable", "other"} :
       /\ isConnected' = (isConnected \/ IsReady(chunk))
       /\ readyLine' = IF readyLine = "none" /\ chunk # "other" THEN chunk ELSE readyLine
  /\ chunks' = chunks + 1
  /\ UNCHANGED <<inputVars, pc, error, method, pathname, spawned, procAlive,
                 isTimedOut, watchdog, poller, race, raceError, killVars, reqVars>>

-----------------------------------------------------------------------------
(* lines 126-146: the readiness gate *)

Settle(outcome, e) ==
  IF race = "pending"
  THEN race' = outcome /\ raceError' = e
  ELSE UNCHANGED <<race, raceError>>

(* lines 128-131: sleep(timeout) is over and the flag is still false: the
   watchdog marks the timeout and calls killProcess *)
WatchdogTimesOut ==
  /\ watchdog = "sleeping"
  /\ ~MicrotaskPending
  /\ ~isConnected
  /\ isTimedOut' = TRUE
  /\ kills' = kills + 1
  /\ killPending' = killPending \cup {"watchdog"}
  /\ watchdog' = "killing"
  /\ UNCHANGED <<inputVars, pc, error, method, pathname, procVars, isConnected,
                 poller, race, raceError, killRejected, terminated, reqVars>>

(* lines 128-129, 138-139: sleep(timeout) is over and the flag is set: the
   watchdog returns *)
WatchdogReturns ==
  /\ watchdog = "sleeping"
  /\ ~MicrotaskPending
  /\ isConnected
  /\ watchdog' = "returned"
  /\ Settle("resolved", NoError)
  /\ UNCHANGED <<inputVars, pc, error, method, pathname, procVars, isConnected,
                 isTimedOut, poller, killVars, reqVars>>

(* lines 43-52, 131-137: the watchdog's kill is confirmed and the watchdog
   throws the timeout error *)
WatchdogKillResolves ==
  /\ watchdog = "killing"
  /\ ~MicrotaskPending
  /\ "watchdog" \in killPending
  /\ killPending' = killPending \ {"watchdog"}
  /\ terminated' = TRUE
  /\ procAlive' = FALSE
  /\ watchdog' = "thrown"
  /\ Settle("rejected", Err("TimedOut", <<>>))
  /\ UNCHANGED <<inputVars, pc, error, method, pathname, spawned, chunks, readyLine,
                 isConnected, isTimedOut, poller, kills, killRejected, reqVars>>

(* lines 43-52, 131: the watchdog's kill fails and the await rethrows it *)
WatchdogKillRejects ==
  /\ watchdog = "killing"
  /\ ~MicrotaskPending
  /\ "watchdog" \in killPending
  /\ killPending' = killPending \ {"watchdog"}
  /\ killRejected' = killRejected \cup {"watchdog"}
  /\ watchdog' = "thrown"
  /\ Settle("rejected", Err("KillError", <<>>))
  /\ UNCHANGED <<inputVars, pc, error, method, pathname, procVars,
                 isConnected, isTimedOut, poller, kills, terminated, reqVars>>

\* line 141 without the test of isTimedOut
PollerWaitsForConnection == ~isConnected

\* line 141: the poller goes on while this holds
PollerWaits == ~isConnected /\ ~isTimedOut

(* lines 141-143: sleep(1) is over and the poller sleeps again *)
PollerSpins ==
  /\ poller = "polling"
  /\ ~MicrotaskPending
  /\ PollerWaits
  /\ UNCHANGED vars

(* lines 141-144: sleep(1) is over and the poller returns true *)
PollerReturns ==
  /\ poller = "polling"
  /\ ~MicrotaskPending
  /\ ~PollerWaits
  /\ poller' = "done"
  /\ Settle("resolved", NoError)
  /\ UNCHANGED <<inputVars, pc, error, method, pathname, procVars, isConnected,
                 isTimedOut, watchdog, killVars, reqVars>>

(* line 126: the race rejected and run rethrows *)
RaceRejected ==
  /\ pc = "race"
  /\ race = "rejected"
  /\ Throw(raceError)
  /\ UNCHANGED <<inputVars, method, pathname, gateVars, procVars, killVars, reqVars>>

(* lines 126, 148-163: the race resolved and run calls io.request *)
SendRequest ==
  /\ pc = "race"
  /\ race = "resolved"
  /\ requests' = Append(requests, Request(method, pathname, params))
  /\ pc' = "request"
  /\ UNCHANGED <<inputVars, error, method, pathname, gateVars, procVars, killVars,
                 idx, result, streamResult, log>>

-----------------------------------------------------------------------------
(* lines 157-181: the request and its stream *)

(* io.request rejects: the connection fails *)
RequestRejects ==
  /\ pc = "request"
  /\ Throw(Err("RequestError", <<>>))
  /\ UNCHANGED <<inputVars, method, pathname, gateVars, procVars, killVars, reqVars>>

(* lines 163-180: the next event of the stream is handed to the callback *)
OnEvent ==
  /\ pc = "request"
  /\ idx < Len(server.events)
  /\ ~CallbackThrows(server.events[idx + 1])
  /\ idx' = idx + 1
  /\ result' = CallbackResult(server.events[idx + 1], result)
  /\ log' = log \o CallbackPrints(server.events[idx + 1], params.v)
  /\ UNCHANGED <<inputVars, pc, error, method, pathname, gateVars, procVars,
                 killVars, requests, streamResult>>

(* lines 165, 168, 173: JSON.parse throws inside the callback *)
OnEventThrows ==
  /\ pc = "request"
  /\ idx < Len(server.events)
  /\ CallbackThrows(server.events[idx + 1])
  /\ Throw(Err("SyntaxError", <<>>))
  /\ UNCHANGED <<inputVars, method, pathname, gateVars, procVars, killVars, reqVars>>

RawResponse == [statusCode |-> server.statusCode, body |-> server.body]

(* lines 157, 184-194: the stream ends with status 500 *)
ThrowRemoteError ==
  /\ pc = "request"
  /\ idx = Len(server.events)
  /\ server.statusCode = 500
  /\ streamResult' = <<RawResponse>>
  /\ Throw(Err("RemoteError", ErrorMessage(server.body)))
  /\ UNCHANGED <<inputVars, method, pathname, gateVars, procVars, killVars,
                 requests, idx, result, log>>

(* lines 157, 197: the stream ends, the status is not 500 and result is
   undefined: result.body throws a TypeError *)
ThrowUndefinedResult ==
  /\ pc = "request"
  /\ idx = Len(server.events)
  /\ server.statusCode # 500
  /\ result = <<>>
  /\ streamResult' = <<RawResponse>>
  /\ Throw(Err("TypeError", <<>>))
  /\ UNCHANGED <<inputVars, method, pathname, gateVars, procVars, killVars,
                 requests, idx, result, log>>

(* lines 184-206 with the captured result looked at before the status: a
   captured @response is used whatever the status *)
CallKillWhateverStatus ==
  /\ pc = "request"
  /\ idx = Len(server.events)
  /\ result # <<>>
  /\ streamResult' = <<RawResponse>>
  /\ kills' = kills + 1
  /\ killPending' = killPending \cup {"main"}
  /\ pc' = "kill"
  /\ UNCHANGED <<inputVars, error, method, pathname, gateVars, procVars,
                 killRejected, terminated, requests, idx, result, log>>

(* lines 197-219 with the printing placed before the kill: the result is
   printed when killProcess is called *)
CallKillAfterPrint ==
  /\ pc = "request"
  /\ idx = Len(server.events)
  /\ server.statusCode # 500
  /\ result # <<>>
  /\ streamResult' = <<RawResponse>>
  /\ kills' = kills + 1
  /\ killPending' = killPending \cup {"main"}
  /\ log' = log \o FinalPrints(params, requests[Len(requests)], result[1])
  /\ pc' = "kill"
  /\ UNCHANGED <<inputVars, error, method, pathname, gateVars, procVars,
                 killRejected, terminated, requests, idx, result>>

(* lines 157, 197-206: the stream ends, the status is not 500, a result was
   captured: run calls killProcess *)
CallKill ==
  /\ pc = "request"
  /\ idx = Len(server.events)
  /\ server.statusCode # 500
  /\ result # <<>>
  /\ streamResult' = <<RawResponse>>
  /\ kills' = kills + 1
  /\ killPending' = killPending \cup {"main"}
  /\ pc' = "kill"
  /\ UNCHANGED <<inputVars, error, method, pathname, gateVars, procVars,
                 killRejected, terminated, requests, idx, result, log>>

(* lines 206-221: the kill is confirmed, the result is printed, run returns *)
KillResolves ==
  /\ pc = "kill"
  /\ "main" \in killPending
  /\ killPending' = killPending \ {"main"}
  /\ terminated' = TRUE
  /\ procAlive' = FALSE
  /\ log' = log \o FinalPrints(params, requests[Len(requests)], result[1])
  /\ pc' = "returned"
  /\ UNCHANGED <<inputVars, error, method, pathname, gateVars, spawned, chunks, readyLine,
                 kills, killRejected, requests, idx, result, streamResult>>

(* lines 206-219 with the printing moved before the await of the kill: the
   kill fails after the result was printed *)
KillRejectsAfterPrint ==
  /\ pc = "kill"
  /\ "main" \in killPending
  /\ killPending' = killPending \ {"main"}
  /\ killRejected' = killRejected \cup {"main"}
  /\ log' = log \o FinalPrints(params, requests[Len(requests)], result[1])
  /\ Throw(Err("KillError", <<>>))
  /\ UNCHANGED <<inputVars, method, pathname, gateVars, procVars, kills,
                 terminated, requests, idx, result, streamResult>>

(* lines 43-52, 206: the kill fails and run rethrows it *)
KillRejects ==
  /\ pc = "kill"
  /\ "main" \in killPending
  /\ killPending' = killPending \ {"main"}
  /\ killRejected' = killRejected \cup {"main"}
  /\ Throw(Err("KillError", <<>>))
  /\ UNCHANGED <<inputVars, method, pathname, gateVars, procVars, kills,
                 terminated, reqVars>>

-----------------------------------------------------------------------------

Next ==
  \/ LoadPackageResolves
  \/ LoadPackageRejects
  \/ ThrowMethodNotSupported
  \/ ThrowAssignToConst
  \/ ThrowNoPathname
  \/ ThrowInvalidPathname
  \/ SpawnServer
  \/ StdoutData
  \/ WatchdogTimesOut
  \/ WatchdogReturns
  \/ WatchdogKillResolves
  \/ WatchdogKillRejects
  \/ PollerSpins
  \/ PollerReturns
  \/ RaceRejected
  \/ SendRequest
  \/ RequestRejects
  \/ OnEvent
  \/ OnEventThrows
  \/ ThrowRemoteError
  \/ ThrowUndefinedResult
  \/ CallKill
  \/ KillResolves
  \/ KillRejects

Spec == Init /\ [][Next]_vars

\* The core inputs alone, for the properties of progress
CoreInputs == CoreParams \X CoreScripts
InitCore == InitWith(CoreInputs)

\* Node's event loop: a timer that is due fires (the sleeps of lines 128 and
\* 142), and a queued continuation runs (the await of line 126). The child,
\* tree-kill and the server owe nothing.
Fairness ==
  /\ WF_vars(WatchdogTimesOut)
  /\ WF_vars(WatchdogReturns)
  /\ WF_vars(PollerReturns)
  /\ WF_vars(SendRequest)
  /\ WF_vars(RaceRejected)

SpecFair == InitCore /\ [][Next]_vars /\ Fairness

-----------------------------------------------------------------------------
(* LoginCommand.run *)

\* texts are sequences of pieces: a scheme, a name, a blank
Http == <<"http://">>
Https == <<"https://">>

\* constants.BASE_URL is defined outside this file: a URL with a scheme, or
\* a bare host name
BaseUrls == {<<"https://", "api.registry">>, <<"api.registry">>}

\* the -h flag: absent, or one host
HostFlags(base) ==
  {<<>>, base,
   <<"localhost", ":8000">>, <<"http://", "localhost", ":8000">>,
   <<"registry.test">>, <<"https://", "registry.test">>}

\* --email and --password: absent, blank, or given with blanks around
EmailFlags == {<<>>, <<" ">>, <<" ", "me@registry.test", " ">>}
PasswordFlags == {<<>>, <<"secret", " ">>}

\* what the user types at the prompt
Answers == <<<<"username", <<"typed@registry.test">>>>,
             <<"password", <<"typed-secret">>>>>>

ServerError(message, details) == [message |-> message, details |-> details]
User(email, accessTokens) == [email |-> email, accessTokens |-> accessTokens]
Token == [key |-> "key-1", created_at |-> "today"]
Response(statusCode, e, user) ==
  [statusCode |-> statusCode, error |-> e, user |-> user]

\* what /auth answers: data.error and the user's fields of data, each
\* present (a one-element sequence) or absent
Responses ==
  {Response(200, <<>>, <<User("me@registry.test", <<Token>>)>>),
   Response(200, <<>>, <<User("me@registry.test", <<>>)>>),
   Response(201, <<>>, <<User("me@registry.test", <<Token>>)>>),
   Response(401, <<ServerError("Invalid credentials", <<>>)>>, <<>>),
   Response(400,
            <<ServerError("Bad request",
                          <<<<"password", "too short">>,
                            <<"username", "unknown">>>>)>>,
            <<>>),
   Response(500, <<>>, <<>>)}

\* String.prototype.trim, blanks being pieces
RECURSIVE TrimStart(_)
TrimStart(s) ==
  IF s # <<>> /\ Head(s) = " " THEN TrimStart(Tail(s)) ELSE s

RECURSIVE TrimEnd(_)
TrimEnd(s) ==
  IF s # <<>> /\ s[Len(s)] = " " THEN TrimEnd(SubSeq(s, 1, Len(s) - 1))
  ELSE s

Trim(s) == TrimEnd(TrimStart(s))

\* lines 29-34: the flag or the default, and a scheme when it has none
LoginHost(h, base) ==
  LET host == IF h # <<>> THEN h ELSE base
  IN  IF ~StartsWith(host, Http) /\ ~StartsWith(host, Https)
      THEN IF StartsWith(host, <<"localhost">>) THEN Http \o host
           ELSE Https \o host
      ELSE host

\* lines 39-60: what is asked for, and what the flags already gave
InquireList(email, password) ==
  (IF email = <<>> THEN <<"username">> ELSE <<>>)
  \o (IF password = <<>> THEN <<"password">> ELSE <<>>)

RequestParams(email, password) ==
  (IF email = <<>> THEN <<>> ELSE <<<<"username", email>>>>)
  \o (IF password = <<>> THEN <<>> ELSE <<<<"password", password>>>>)

\* inquirer.prompt: one answer for each question asked
LoginResult(inquireList) ==
  SelectSeq(Answers, LAMBDA a : \E i \in 1..Len(inquireList) :
                                   inquireList[i] = a[1])

RECURSIVE AssignAll(_, _)
AssignAll(obj, entries) ==
  IF entries = <<>> THEN obj
  ELSE AssignAll(Assign(obj, entries[1][1], entries[1][2]), Tail(entries))

\* lines 64-68
SendParams(requestParams, loginResult) ==
  Assign(AssignAll(requestParams, loginResult), "grant_type", <<"password">>)

\* mutation: only the error statuses count as a failed login
LoginFailsOnErrorStatus(response) == response.statusCode >= 400

\* line 77
LoginFails(response) == response.statusCode # 200

\* lines 81-86: one line for each detail
RECURSIVE More(_)
More(details) ==
  IF details = <<>> THEN <<>>
  ELSE <<<<"- ", details[1][1], ": ", details[1][2]>>>> \o More(Tail(details))

RECURSIVE JoinLines(_)
JoinLines(lines) ==
  IF lines = <<>> THEN <<>>
  ELSE IF Len(lines) = 1 THEN lines[1]
  ELSE lines[1] \o <<"\n">> \o JoinLines(Tail(lines))

\* lines 87-94
LoginErrorMessage(e) ==
  <<e.message>>
  \o (IF More(e.details) # <<>> THEN <<"\n\n">> \o JoinLines(More(e.details))
      ELSE <<>>)

\* lines 109-112
SettingsData(user, token, host, base) ==
  <<<<"email", user.email>>, <<"key", token.key>>>>
  \o (IF host # base THEN <<<<"host", host>>>> ELSE <<>>)

LoginInputs ==
  {[LoginIdle EXCEPT !.pc = "start", !.BASE_URL = base, !.h = h,
                     !.email = email, !.password = password,
                     !.response = response] :
     base \in BaseUrls, h \in UNION {HostFlags(b) : b \in BaseUrls},
     email \in EmailFlags, password \in PasswordFlags,
     response \in Responses}

\* run's variables, which LoginCommand never touches
runVars == <<params, server, pc, error, method, pathname, spawned, procAlive,
             chunks, readyLine, isConnected, isTimedOut, watchdog, poller,
             race, raceError, kills, killPending, killRejected, terminated,
             requests, idx, result, streamResult, log>>

LoginThrow(e) == login' = [login EXCEPT !.pc = "thrown", !.error = e]

\* lines 29-62: up to the prompt
LoginAsks ==
  /\ login.pc = "start"
  /\ login' = [login EXCEPT
       !.pc = "prompt",
       !.host = LoginHost(login.h, login.BASE_URL),
       !.inquireList = InquireList(Trim(login.email), Trim(login.password)),
       !.sendParams = RequestParams(Trim(login.email), Trim(login.password))]
  /\ UNCHANGED runVars

\* lines 62-75: the answers are in, the request is sent
LoginPosts ==
  /\ login.pc = "prompt"
  /\ login' = [login EXCEPT
       !.pc = "post",
       !.sendParams = SendParams(login.sendParams,
                                 LoginResult(login.inquireList)),
       !.posts = login.posts + 1]
  /\ UNCHANGED runVars

\* line 70: the request fails
LoginPostRejects ==
  /\ login.pc = "post"
  /\ LoginThrow(Err("RequestError", <<>>))
  /\ UNCHANGED runVars

\* lines 77-95
LoginThrowsServerError ==
  /\ login.pc = "post"
  /\ LoginFails(login.response)
  /\ login.response.error # <<>>
  /\ LoginThrow(Err("Error", LoginErrorMessage(login.response.error[1])))
  /\ UNCHANGED runVars

\* lines 78-79: data.error is undefined; lines 98 and 106: no user fields,
\* or no access token
LoginThrowsTypeError ==
  /\ login.pc = "post"
  /\ \/ LoginFails(login.response) /\ login.response.error = <<>>
     \/ /\ ~LoginFails(login.response)
        /\ \/ login.response.user = <<>>
           \/ login.response.user[1].accessTokens = <<>>
  /\ LoginThrow(Err("TypeError", <<>>))
  /\ UNCHANGED runVars

\* lines 97-117
LoginWritesSettings ==
  /\ login.pc = "post"
  /\ ~LoginFails(login.response)
  /\ login.response.user # <<>>
  /\ login.response.user[1].accessTokens # <<>>
  /\ LET user == login.response.user[1]
         token == user.accessTokens[1]
     IN  login' = [login EXCEPT
           !.pc = "returned",
           !.log = <<"Logged in", user.email, token.created_at>>,
           !.writes = Append(login.writes,
                             SettingsData(user, token, login.host,
                                          login.BASE_URL))]
  /\ UNCHANGED runVars

NextLogin ==
  \/ LoginAsks
  \/ LoginPosts
  \/ LoginPostRejects
  \/ LoginThrowsServerError
  \/ LoginThrowsTypeError
  \/ LoginWritesSettings

\* RunCommand.run is not called
InitLogin ==
  /\ RunInit({CHOOSE input \in CoreInputs : TRUE}, "idle")
  /\ login \in LoginInputs

SpecLogin == InitLogin /\ [][NextLogin]_vars

-----------------------------------------------------------------------------
(* Properties *)

Terminal == pc \in {"returned", "thrown"}

\* run ended in one of the four outcomes of a run that spawned the server
FourOutcomes ==
  \/ pc = "returned"
  \/ pc = "thrown" /\ error.name \in {"TimedOut", "RemoteError", "TypeError"}

\* C1: a run that spawned the server and ended by readiness timeout, remote
\* error (status 500), missing @response or success has called
\* killProcess(proc.pid) exactly once.
C1_KillExactlyOnce ==
  (spawned > 0 /\ FourOutcomes) => kills = 1

\* C2: once the watchdog has fired with no readiness line seen (and its kill
\* does not fail), run ends by throwing the readiness-timeout error, with the
\* child terminated, whatever the order of the watchdog and the poller.
C2_TimeoutSurfaces ==
  (Terminal /\ isTimedOut /\ killRejected = {})
    => (pc = "thrown" /\ error.name = "TimedOut" /\ terminated)

\* C3: a request is sent only once isConnected is true, and no request is
\* sent in a run whose readiness timed out.
C3_RequestOnlyWhenReady ==
  /\ requests # <<>> => isConnected
  /\ isTimedOut => requests = <<>>

\* C4: when run rejects because the request or the reconstruction failed
\* (io.request rejected, the callback threw, status 500, no @response), the
\* child has been killed and the kill confirmed.
C4_KilledBeforeRethrow ==
  (pc = "thrown" /\ error.name \in {"RequestError", "SyntaxError", "RemoteError", "TypeError"})
    => (kills >= 1 /\ terminated)

\* The inputs C5 is about, written out from the claim
C5BadMethod == MethodOf(params) \notin {"get", "post", "put", "delete", "del"}
C5NoPath == params.args = <<>> \/ params.args[1] = <<>>
C5DotDot ==
  /\ params.args # <<>>
  /\ Len(params.args[1]) >= 2
  /\ params.args[1][1] = "."
  /\ params.args[1][2] = "."

\* C5: with an unsupported method flag, a missing path or a path starting with
\* '..', run spawns no child and sends no request, and once past validation it
\* has thrown.
C5_InvalidArgsSpawnNothing ==
  (C5BadMethod \/ C5NoPath \/ C5DotDot)
    => /\ spawned = 0
       /\ requests = <<>>
       /\ pc \in {"load", "validate", "thrown"}

\* C5 witness: run has thrown on an unsupported method with nothing spawned
C5_Witness ==
  /\ pc = "thrown"
  /\ error.name = "MethodNotSupported"
  /\ C5BadMethod
  /\ spawned = 0

\* C6: a run with method flag 'del' and a valid path passes validation and
\* spawns the server: it is never rejected before the spawn (other than by
\* loadPackage).
C6_DelAccepted ==
  (MethodOf(params) = "del" /\ ~C5NoPath /\ ~C5DotDot /\ pc = "thrown")
    => (spawned = 1 \/ error.name = "LoadPackageError")

\* C7: when the response has a non-500 status and no @response event was
\* captured, run fails with a ProtocolError.
C7_ProtocolErrorNamed ==
  (pc = "thrown" /\ streamResult # <<>> /\ streamResult[1].statusCode # 500 /\ result = <<>>)
    => error.name = "ProtocolError"

\* The first line of the body with the prefix and its separator removed
C8Expected(body) ==
  LET rest == Slice(Split(body, NL)[1], Len(ErrorPrefix))
  IN  IF StartsWith(rest, <<" ">>) THEN Slice(rest, 1) ELSE rest

\* C8: for a 500 body starting with 'Application Error:', the message of the
\* error is the first line of the body with that prefix and its separator
\* removed, and no other character lost.
C8_PrefixStripped ==
  (pc = "thrown" /\ error.name = "RemoteError" /\ StartsWith(streamResult[1].body, ErrorPrefix))
    => error.message = C8Expected(streamResult[1].body)

\* The last @response event among the first n events of the stream
RECURSIVE LastResponse(_, _)
LastResponse(events, n) ==
  IF n = 0 THEN <<>>
  ELSE IF events[n].event = "@response" THEN <<events[n].data>>
  ELSE LastResponse(events, n - 1)

\* The lines the stream printed: every line but the final ones
StreamLines == SelectSeq(log, LAMBDA l : l.kind \in {"stdout", "stderr", "event"})
ResultAt(i) == log[i].kind = "result"

\* C9: events are handled in arrival order and the result is printed after
\* all of them: a result line is printed only when every event was handled, it
\* is the last line, every stream line precedes it, it shows the body of the
\* latest @response event, and for @stdout, @response, end the output is the
\* stdout lines followed by the result.
C9_OrderedThenResult ==
  /\ \A i \in 1..Len(log) : ResultAt(i) =>
       /\ pc = "returned"
       /\ idx = Len(server.events)
       /\ i = Len(log)
       /\ LastResponse(server.events, Len(server.events)) # <<>>
       /\ log[i].text =
            Printed(LastResponse(server.events, Len(server.events))[1].body)
  /\ pc = "returned" => (log # <<>> /\ ResultAt(Len(log)))
  /\ (pc = "returned" /\ server.events = OkStream /\ ~params.v) =>
       log = <<Line("stdout", <<"h">>), Line("stdout", <<"i">>),
               Line("result", <<"{\n  \"a\": 1\n}">>)>>

\* C9 witness: the stream @stdout, @response, end was handled and the result
\* printed after the stdout lines
C9_Witness ==
  /\ pc = "returned"
  /\ server.events = OkStream
  /\ Len(log) = 3
  /\ log[1].kind = "stdout"
  /\ log[3].kind = "result"

\* C10: when the readiness timeout occurred and the kill failed, the error run
\* throws is the timeout error, not the kill error.
C10_InvocationErrorFirst ==
  (pc = "thrown" /\ isTimedOut /\ "watchdog" \in killRejected)
    => error.name # "KillError"

\* The number of final result lines printed
ResultLines == Len(SelectSeq(log, LAMBDA l : l.kind = "result"))

\* C11: a run ends either by returning with the final result printed (once),
\* or by throwing with no final result printed; a result is never printed by
\* a run that then throws, and no run returns without having printed it.
C11_ResultOrError ==
  /\ pc = "returned" => (ResultLines = 1 /\ error = NoError)
  /\ pc = "thrown" => (ResultLines = 0 /\ error # NoError)
  /\ ResultLines > 0 => pc = "returned"

\* C11 witness: a run that spawned the server has returned with its result
\* printed
C11_Witness ==
  /\ pc = "returned"
  /\ ResultLines = 1
  /\ spawned = 1

\* The debug flag as the query carries it
DebugEntry == <<"_debug", <<"true">>>>

\* The invocation parameters other than one named like the debug flag
NamedParams == SelectSeq(FunctionParams(params), LAMBDA e : e[1] # "_debug")

\* {"x":"1"}, one character per element
BodyX1 == <<"{", "\"", "x", "\"", ":", "\"", "1", "\"", "}">>

\* C12: where the parameters go depends on the method alone. For get and
\* delete the query is the invocation parameters and the debug flag _debug
\* (which replaces a parameter of that name) and the body is empty; for post
\* and put the body is the JSON text of the parameters ({"x":"1"} for x = 1)
\* and the query is the debug flag alone.
C12_ParameterPlacement ==
  \A i \in 1..Len(requests) :
    LET req == requests[i]
        m == MethodOf(params)
    IN  /\ m \in {"get", "delete"} =>
             /\ SelectSeq(req.query, LAMBDA e : e[1] # "_debug") = NamedParams
             /\ SelectSeq(req.query, LAMBDA e : e[1] = "_debug") = <<DebugEntry>>
             /\ req.body = <<>>
        /\ m \in {"post", "put"} =>
             /\ req.query = <<DebugEntry>>
             /\ req.body = JsonStringify(FunctionParams(params))
             /\ params.vflags = VFlagsX => req.body = BodyX1
        /\ m \in {"get", "delete", "post", "put"}

\* C12 witness: a POST request was sent for the parameter x = 1
C12_Witness ==
  /\ requests # <<>>
  /\ requests[1].method = "POST"
  /\ params.vflags = VFlagsX
  /\ requests[1].body = BodyX1
  /\ requests[1].query = <<DebugEntry>>

\* s without its leading c characters
RECURSIVE StripAll(_, _)
StripAll(s, c) == IF s # <<>> /\ s[1] = c THEN StripAll(Tail(s), c) ELSE s

\* s without one leading c, if it has one
StripOne(s, c) == IF s # <<>> /\ s[1] = c THEN Tail(s) ELSE s

PathAB == <<"a", "/", "b">>

\* C13 as stated: the path of the request is the argument without one leading
\* '.' and without any leading '/', and it does not begin with '/'.
C13_AllSlashesStripped ==
  \A i \in 1..Len(requests) :
    /\ requests[i].path = StripAll(StripOne(ArgPath(params), "."), "/")
    /\ ~(requests[i].path # <<>> /\ requests[i].path[1] = "/")

\* C13 amended: the path of the request is the argument without one leading
\* '.' and then without one leading '/'; './a/b', '/a/b' and 'a/b' all give
\* 'a/b'; the path begins with '/' only for an argument beginning with '//'
\* or './/'.
C13_OneDotOneSlash ==
  \A i \in 1..Len(requests) :
    LET arg == ArgPath(params)
        path == requests[i].path
    IN  /\ path = StripOne(StripOne(arg, "."), "/")
        /\ arg \in ExamplePaths => path = PathAB
        /\ (path # <<>> /\ path[1] = "/") =>
             \/ (Len(arg) >= 2 /\ arg[1] = "/" /\ arg[2] = "/")
             \/ (Len(arg) >= 3 /\ arg[1] = "." /\ arg[2] = "/" /\ arg[3] = "/")

\* C13 witness: the request for './a/b' was sent with the path 'a/b'
C13_Witness ==
  /\ requests # <<>>
  /\ ArgPath(params) = <<".", "/", "a", "/", "b">>
  /\ requests[1].path = PathAB

\* A readiness line was written and the watchdog has not timed out: the line
\* came before the timeout elapsed
ReadyInTime == readyLine # "none" /\ ~isTimedOut

\* C14: once either readiness line is written before the timeout elapses, the
\* flag is set, the watchdog never times out, kills or fails the run (also
\* when its sleep ends later), and the request is eventually sent.
C14_ReadyOpensGate ==
  /\ [](ReadyInTime =>
          /\ isConnected
          /\ watchdog \in {"sleeping", "returned"}
          /\ "watchdog" \notin (killPending \cup killRejected)
          /\ race # "rejected"
          /\ error.name \notin {"TimedOut"})
  /\ [][ReadyInTime => ReadyInTime']_vars
  /\ (ReadyInTime ~> requests # <<>>)

\* C14 witness: the second readiness line was written, the watchdog's sleep
\* ended without a kill and the request was sent
C14_Witness ==
  /\ readyLine = "unable"
  /\ ~isTimedOut
  /\ watchdog = "returned"
  /\ kills = 0
  /\ requests # <<>>

\* The killProcess calls made by run itself (line 206), not by the watchdog
MainKills == kills - (IF watchdog \in {"killing", "thrown"} THEN 1 ELSE 0)

\* C15: the result is printed and run returns only after run's own
\* killProcess call was made and resolved; while that call is pending nothing
\* is printed; if it rejects, run throws the kill error and prints no result.
C15_PrintAfterKill ==
  /\ (ResultLines > 0 \/ pc = "returned") =>
       /\ MainKills = 1
       /\ terminated
       /\ "main" \notin (killPending \cup killRejected)
  /\ "main" \in killPending => (pc = "kill" /\ ResultLines = 0)
  /\ "main" \in killRejected =>
       (pc = "thrown" /\ error.name = "KillError" /\ ResultLines = 0)

\* C15 witness: run's kill resolved, then the result was printed and run
\* returned
C15_Witness ==
  /\ pc = "returned"
  /\ MainKills = 1
  /\ terminated
  /\ killPending = {}
  /\ log # <<>>
  /\ log[Len(log)].kind = "result"

\* The outcome of the gate is decided
Decided == isConnected \/ isTimedOut

\* C16: the poller's loop ends in every execution and the race settles; once
\* the outcome is decided the poller cannot go to sleep again.
C16_PollerTerminates ==
  /\ (poller = "polling" ~> poller = "done")
  /\ (race = "pending" ~> race \in {"resolved", "rejected"})
  /\ []((poller = "polling" /\ Decided) => ~ENABLED PollerSpins)

\* C16 witness: the server never became ready, the watchdog timed out and the
\* poller stopped
C16_Witness ==
  /\ poller = "done"
  /\ isTimedOut
  /\ ~isConnected
  /\ race # "pending"

\* C17: isConnected starts false, is never reset, and changes only in a step
\* of the stdout listener that takes in a chunk with a readiness line: no step
\* of the watchdog, of the poller or of run changes it.
C17_ConnectedLatch ==
  /\ ~isConnected
  /\ [][isConnected => isConnected']_vars
  /\ [][(isConnected' # isConnected) =>
          /\ ~isConnected /\ isConnected'
          /\ chunks' = chunks + 1
          /\ readyLine = "none"
          /\ readyLine' \in {"listening", "unable"}
          /\ <<pc, watchdog, poller, race, isTimedOut, kills>>' =
               <<pc, watchdog, poller, race, isTimedOut, kills>>]_vars

\* C17 witness: the listener has set the flag on a readiness line while the
\* watchdog and the poller were still waiting
C17_Witness ==
  /\ isConnected
  /\ readyLine \in {"listening", "unable"}
  /\ chunks >= 1
  /\ watchdog = "sleeping"
  /\ poller = "polling"

\* The callback has just handled one more event
Handled == idx' = idx + 1

\* C18: the captured result changes only when the callback handles an
\* @response event, and then to that event's payload; @stdout, @stderr and
\* other events leave it as it is; what is printed on a non-500 response is
\* the body of the latest @response of the stream.
C18_ResultFromResponseOnly ==
  /\ [][(result' # result) =>
          /\ pc = "request"
          /\ Handled
          /\ server.events[idx'].event = "@response"
          /\ result' = <<server.events[idx'].data>>]_vars
  /\ [][(Handled /\ server.events[idx'].event # "@response") =>
          result' = result]_vars
  /\ [](pc = "returned" =>
          /\ server.statusCode # 500
          /\ result = LastResponse(server.events, Len(server.events))
          /\ log[Len(log)] = Line("result", Printed(result[1].body)))

\* C18 witness: a second @response replaced the first, and its body was
\* printed
C18_Witness ==
  /\ pc = "returned"
  /\ Len(server.events) = 2
  /\ server.events[1].event = "@response"
  /\ server.events[2].event = "@response"
  /\ server.events[1].data # server.events[2].data
  /\ result = <<server.events[2].data>>
  /\ log[Len(log)].text = Printed(server.events[2].data.body)

\* C19: a response with status 500 makes run throw the remote error and print
\* no result, whatever @response events the stream carried.
C19_Status500Wins ==
  /\ (streamResult # <<>> /\ streamResult[1].statusCode = 500) =>
       /\ pc = "thrown"
       /\ error.name = "RemoteError"
       /\ error.message = ErrorMessage(streamResult[1].body)
       /\ ResultLines = 0
  /\ ResultLines > 0 => server.statusCode # 500

\* C19 witness: an @response was captured, the status was 500 and run threw
\* the remote error
C19_Witness ==
  /\ streamResult # <<>>
  /\ streamResult[1].statusCode = 500
  /\ result # <<>>
  /\ pc = "thrown"
  /\ error.name = "RemoteError"

\* an entry of a settings object
Has(data, key) == \E i \in 1..Len(data) : data[i][1] = key

====
